---- MODULE Spec2Model ----
(***************************************************************************)
(* Model of the plus-minus-equal server (src/server.py): the connection    *)
(* registry, the broadcast bus, the leaderboard store, the quiz state      *)
(* machine and the command router, as run by one asyncio event loop.       *)
(*                                                                         *)
(* Every action is one uninterrupted run of one task, from the point where *)
(* the event loop resumes it to its next suspension (an await that yields)  *)
(* or its end.  Tasks are the per-connection hello handlers, the register  *)
(* tasks, the check_to_proceed task made by /play and the proceed_game     *)
(* tasks.  Time advances in one-second ticks.                               *)
(***************************************************************************)
EXTENDS Integers, Sequences, FiniteSets, TLC

\* ---------------------------------------------------------------- bounds
MaxConn    == 2   \* connections that may ever be opened
MaxReg     == 3   \* register requests that may ever be sent
MaxRounds  == 2   \* /play commands that may ever be accepted
MaxQ       == 2   \* largest <num-questions> argument tried with /play
MaxOperand == 1   \* operands are drawn from the difficulty bound within -MaxOperand..MaxOperand
MaxScore   == 2   \* largest score of a leaderboard or round-score entry drawn as an input

Conns == 1..MaxConn
Names == {"a", "b"}
NoName == "-"
None == "None"

VARIABLES
  users,      \* db.users: insertion-ordered dict, a sequence of [name, active, foreground, background]
  leaderboad, \* db.leaderboad: sequence of <<name, score>>
  conn,       \* db.conn: connection -> name (NoName: not a key)
  game,       \* the Game record, but cur_game (see tasks)
  tasks,      \* the live (not finished, not cancelled) cycle tasks, in creation order;
              \*   the one with cur = TRUE is game.cur_game
  hello,      \* per connection: where its hello handler stands
  regs,       \* the live register tasks, in creation order
  sock,       \* per connection: "open" or "closed"
  out,        \* the envelopes sent by the last step, in order
  hist        \* history: nreg, the register requests sent; nplay, the /play commands
              \*   accepted; of the round last started: parts, the users active when
              \*   it started, npub, the questions published since, forced, whether
              \*   the registry becoming empty stopped it while it was active; due,
              \*   per user the round scores the leaderboard is owed since the last
              \*   reset

vars == <<users, leaderboad, conn, game, tasks, hello, regs, sock, out, hist>>

\* ------------------------------------------------------- sequence helpers
RECURSIVE SeqSum(_)
SeqSum(s) == IF s = <<>> THEN 0 ELSE s[1][2] + SeqSum(Tail(s))

Keys(s) == {s[i][1] : i \in 1..Len(s)}

Get(s, k) == LET i == CHOOSE j \in 1..Len(s) : s[j][1] = k IN s[i][2]

\* A variant of InsertDesc that puts e before the elements of its own score.
InsertDescBeforeTies(s, e) ==
  LET k == Cardinality({i \in 1..Len(s) : s[i][2] > e[2]})
  IN  SubSeq(s, 1, k) \o <<e>> \o SubSeq(s, k + 1, Len(s))

\* Insert e after every element whose score is >= its score: with a left-to-right
\* fold this is Python's stable sorted(..., key=score, reverse=True).
InsertDesc(s, e) ==
  LET k == Cardinality({i \in 1..Len(s) : s[i][2] >= e[2]})
  IN  SubSeq(s, 1, k) \o <<e>> \o SubSeq(s, k + 1, Len(s))

RECURSIVE SortFrom(_, _)
SortFrom(acc, s) == IF s = <<>> THEN acc ELSE SortFrom(InsertDesc(acc, s[1]), Tail(s))

\* sorted(s, key=lambda x: x[-1], reverse=True)
SortedDesc(s) == SortFrom(<<>>, s)

RemoveAt(s, k) == SubSeq(s, 1, k - 1) \o SubSeq(s, k + 1, Len(s))

\* ------------------------------------------------------------ conversions
\* int(text) for the texts tried; every other text raises ValueError.
IntOf == ("-6" :> -6) @@ ("-5" :> -5) @@ ("-4" :> -4) @@ ("-3" :> -3) @@ ("-2" :> -2) @@ ("-1" :> -1) @@ ("0" :> 0) @@ ("1" :> 1)
         @@ ("2" :> 2) @@ ("3" :> 3) @@ ("4" :> 4) @@ ("5" :> 5) @@ ("6" :> 6)
         @@ ("15" :> 15) @@ ("20" :> 20) @@ ("25" :> 25)

\* A payload is the sequence of its whitespace-separated tokens (command.split()).
IsInt(p) == Len(p) = 1 /\ p[1] \in DOMAIN IntOf

StartsWithSlash(p) == Len(p) >= 1 /\ p[1] \in {"/stop", "/play", "/reset", "/set-delay", "/foo"}

\* parse_color: a colour text is the sequence of its comma-separated parts.
parse_color(color) ==
  IF color = <<>> THEN <<"", "">>
  ELSE IF Len(color) = 1 THEN <<color[1], "">>
  ELSE <<color[1], color[2]>>

\* ------------------------------------------------------------------ state
\* The shared state a procedure reads and writes, threaded through the
\* procedures below; ctl tells the caller how the procedure ended:
\* "ok" (returned), "sleep" (suspended in stop_game's asyncio.sleep, with the
\* local score_board in sb), "raise" (an exception left the procedure).
Here == [users |-> users, leaderboad |-> leaderboad, conn |-> conn, game |-> game,
         tasks |-> tasks, out |-> <<>>, hist |-> hist, ctl |-> "ok", sb |-> <<>>]

Commit(s) ==
  /\ users' = s.users
  /\ leaderboad' = s.leaderboad
  /\ conn' = s.conn
  /\ game' = s.game
  /\ tasks' = s.tasks
  /\ out' = s.out
  /\ hist' = s.hist

Registered(c) == {w \in Conns : c[w] # NoName}

UserNames(us) == {us[i].name : i \in 1..Len(us)}

IsActive(us, n) == \E i \in 1..Len(us) : us[i].name = n /\ us[i].active

ActiveNames(us) == {n \in UserNames(us) : IsActive(us, n)}

\* ---------------------------------------------------------- broadcast bus
\* The user an envelope's text names: the submitter of an answer, the winner,
\* who joined, left or stopped the game.
Named(kind, args) ==
  IF kind \in {"correct", "incorrect"} THEN args[2]
  ELSE IF kind \in {"winner", "left", "joined", "stopped_by", "in_use"} THEN args[1]
  ELSE None

\* What out keeps of an envelope: its target, what it says (kind), the user its
\* text names, the connections it is sent to and, of a leaderboard envelope, the
\* board it carries.
Envelope(target, kind, args, to) ==
  [target |-> target, kind |-> kind, who |-> Named(kind, args), to |-> to,
   board |-> IF target = "leaderboard" THEN args ELSE <<>>]

\* announce: one envelope to every key of db.conn.
announce(s, target, kind, args, name) ==
  [s EXCEPT !.out = Append(@, Envelope(target, kind, args, Registered(s.conn)))]

server_announce(s, kind, args) == announce(s, "message", kind, args, "SERVER")

\* ws.send of one envelope to one connection.
send(s, w, target, kind, args) ==
  [s EXCEPT !.out = Append(@, Envelope(target, kind, args, {w}))]

\* ------------------------------------------------------ leaderboard store
\* A variant of MergeBoard that replaces a total by the round score.
RECURSIVE MergeBoardOverwrite(_, _, _)
MergeBoardOverwrite(board, scores, acc) ==
  IF board = <<>> THEN <<acc, scores>>
  ELSE LET u == board[1][1]
           sc == board[1][2]
       IN  IF u \in Keys(scores)
           THEN MergeBoardOverwrite(Tail(board), SelectSeq(scores, LAMBDA e : e[1] # u),
                                    Append(acc, <<u, Get(scores, u)>>))
           ELSE MergeBoardOverwrite(Tail(board), scores, Append(acc, <<u, sc>>))

\* The first loop of update_leaderboard: walk the board, add and delete.
RECURSIVE MergeBoard(_, _, _)
MergeBoard(board, scores, acc) ==
  IF board = <<>> THEN <<acc, scores>>
  ELSE LET u == board[1][1]
           sc == board[1][2]
       IN  IF u \in Keys(scores)
           THEN MergeBoard(Tail(board), SelectSeq(scores, LAMBDA e : e[1] # u),
                           Append(acc, <<u, sc + Get(scores, u)>>))
           ELSE MergeBoard(Tail(board), scores, Append(acc, <<u, sc>>))

\* update_leaderboard(game.user_score): the dict passed is game.user_score itself,
\* so the deletions are seen in it.
update_leaderboard(s) ==
  LET m == MergeBoard(s.leaderboad, s.game.user_score, <<>>)
      board == SortedDesc(m[1] \o m[2])
      s1 == [s EXCEPT !.leaderboad = board, !.game.user_score = m[2]]
      s2 == announce(s1, "leaderboard", "leaderboard", board, None)
  IN  server_announce(s2, "lb_updated", <<>>)

\* A variant of reset_leaderboard that announces the board without emptying it.
reset_leaderboard_kept(s) ==
  LET s1 == [s EXCEPT !.hist.due = [n \in Names |-> 0]]
      s2 == announce(s1, "leaderboard", "leaderboard", s1.leaderboad, None)
  IN  server_announce(s2, "lb_reset", <<>>)

reset_leaderboard(s) ==
  LET s1 == [s EXCEPT !.leaderboad = <<>>, !.hist.due = [n \in Names |-> 0]]
      s2 == announce(s1, "leaderboard", "leaderboard", <<>>, None)
  IN  server_announce(s2, "lb_reset", <<>>)

\* ------------------------------------------------------- game coordinator
Difficulties == {"easy", "medium", "hard"}

BoundOf(d) == CASE d = "easy" -> <<0, 100>> [] d = "medium" -> <<-100, 100>> [] d = "hard" -> <<-1000, 1000>>

ScoreOf(d) == CASE d = "easy" -> 10 [] d = "medium" -> 20 [] d = "hard" -> 30

\* The values random.randint(*game.bound) is let to return here.
Operands(b) == {x \in (-MaxOperand)..MaxOperand : b[1] <= x /\ x <= b[2]}

\* eval(f"{x} {sign} {y}")
Eval(q) == IF q[2] = "+" THEN q[1] + q[3] ELSE q[1] - q[3]

\* asyncio.create_task of a cycle task, assigned to game.cur_game.  age counts
\* the seconds from here to the task's first countdown announcement; delay is
\* the local of proceed_game, not yet assigned.
NewTask(ts, kind) ==
  Append([j \in 1..Len(ts) |-> [ts[j] EXCEPT !.cur = FALSE]],
         [kind |-> kind, pc |-> "start", i |-> 0, wait |-> 0, cur |-> TRUE, sb |-> <<>>,
          age |-> 0, delay |-> 0])

\* start_game: raises (ctl = "raise") where the code raises, with what it had
\* assigned by then.
start_game(s, command) ==
  IF Len(command) # 3 \/ command[3] \notin DOMAIN IntOf THEN [s EXCEPT !.ctl = "raise"]
  ELSE LET n == IntOf[command[3]]
           d == command[2]
           s1 == [s EXCEPT !.game.tot_q = n]
       IN  IF n < 1 \/ d \notin Difficulties THEN [s1 EXCEPT !.ctl = "raise"]
           ELSE LET act == SelectSeq(s.users, LAMBDA u : u.active)
                    us == [j \in 1..Len(act) |-> <<act[j].name, 0>>]
                IN  [s1 EXCEPT !.game.bound = BoundOf(d), !.game.score = ScoreOf(d),
                               !.game.difficulty = d, !.game.cur_q = 0,
                               !.game.user_score = us, !.game.active = TRUE,
                               !.hist.parts = Keys(us), !.hist.nplay = @ + 1,
                               !.hist.npub = 0, !.hist.forced = FALSE]

\* The round that a stop ends is owed a merge: it is running, has more than one
\* participant and a positive score sum.
Owed(g) == g.active /\ Len(g.user_score) > 1 /\ SeqSum(g.user_score) > 0

Owe(due, scores) ==
  [n \in Names |-> IF n \in Keys(scores) THEN due[n] + Get(scores, n) ELSE due[n]]

\* stop_game up to its asyncio.sleep(0.5) (ctl = "sleep") or, with fewer than two
\* participants, to its end.
stop_game(s) ==
  LET s1 == [s EXCEPT !.game.check_answer = FALSE, !.game.active = FALSE,
                      !.game.stopping = TRUE,
                      !.tasks = SelectSeq(@, LAMBDA t : ~t.cur),
                      !.hist.due = IF Owed(s.game) THEN Owe(@, s.game.user_score) ELSE @]
      s2 == server_announce(s1, "ended", <<>>)
      us == s.game.user_score
  IN  IF Len(us) = 1
      THEN [server_announce(s2, "total", <<us[1][2]>>) EXCEPT !.game.stopping = FALSE]
      ELSE IF Len(us) > 1
      THEN [server_announce(s2, "scoreboard", SortedDesc(us))
              EXCEPT !.ctl = "sleep", !.sb = SortedDesc(us)]
      ELSE [s2 EXCEPT !.game.stopping = FALSE]

\* stop_game from its asyncio.sleep(0.5) on; score_board is its local.
stop_game_resume(s, score_board) ==
  LET s1 == IF score_board[1][2] > score_board[2][2]
            THEN server_announce(s, "winner", <<score_board[1][1]>>)
            ELSE server_announce(s, "tied", <<>>)
      s2 == IF SeqSum(score_board) > 0 THEN update_leaderboard(s1) ELSE s1
  IN  [s2 EXCEPT !.game.stopping = FALSE]

\* A variant of MoreQuestions that is off by one.
MoreQuestionsOffByOne(g) == g.cur_q <= g.tot_q

\* The test of check_to_proceed: questions remain.
MoreQuestions(g) == g.cur_q < g.tot_q

check_to_proceed(s) ==
  IF MoreQuestions(s.game)
  THEN [s EXCEPT !.game.cur_q = @ + 1, !.tasks = NewTask(@, "pg")]
  ELSE IF ~s.game.stopping THEN stop_game(s)
  ELSE s

\* A variant of grade in which a wrong number closes the question.
grade_wrong_closes(s, answer, name) ==
  IF ~IsInt(answer) THEN s
  ELSE IF IntOf[answer[1]] = s.game.answer
  THEN LET s1 == server_announce([s EXCEPT !.game.solved = TRUE], "correct",
                                 <<IntOf[answer[1]], name, s.game.score>>)
       IN  IF name \notin Keys(s.game.user_score) THEN [s1 EXCEPT !.ctl = "raise"]
           ELSE check_to_proceed(
                  [s1 EXCEPT !.game.user_score =
                               [j \in 1..Len(@) |-> IF @[j][1] = name
                                                    THEN <<name, @[j][2] + s.game.score>>
                                                    ELSE @[j]],
                             !.game.check_answer = FALSE])
  ELSE server_announce([s EXCEPT !.game.solved = TRUE], "incorrect", <<IntOf[answer[1]], name>>)

\* check_answer once the question is known to be unsolved: the parse and the
\* comparison.  A submitter who is no key of game.user_score raises KeyError.
grade(s, answer, name) ==
  IF ~IsInt(answer) THEN s
  ELSE IF IntOf[answer[1]] = s.game.answer
  THEN LET s1 == server_announce([s EXCEPT !.game.solved = TRUE], "correct",
                                 <<IntOf[answer[1]], name, s.game.score>>)
       IN  IF name \notin Keys(s.game.user_score) THEN [s1 EXCEPT !.ctl = "raise"]
           ELSE check_to_proceed(
                  [s1 EXCEPT !.game.user_score =
                               [j \in 1..Len(@) |-> IF @[j][1] = name
                                                    THEN <<name, @[j][2] + s.game.score>>
                                                    ELSE @[j]],
                             !.game.check_answer = FALSE])
  ELSE server_announce(s, "incorrect", <<IntOf[answer[1]], name>>)

\* A variant of check_answer that does not look at game.solved.
check_answer_unguarded(s, answer, name) == grade(s, answer, name)

check_answer(s, answer, name) == IF s.game.solved THEN s ELSE grade(s, answer, name)

\* ---------------------------------------------------------- command router
\* A variant of set_delay that knows no upper bound.
set_delay_unbounded(s, command) ==
  IF Len(command) # 2 \/ command[2] \notin DOMAIN IntOf
  THEN server_announce(s, "delay_hint", <<>>)
  ELSE LET time == IntOf[command[2]]
       IN  IF time < 3 THEN server_announce(s, "delay_low", <<3>>)
           ELSE server_announce([s EXCEPT !.game.interval_time = time], "delay_set", <<time>>)

\* The /set-delay branch of resolve_command.
set_delay(s, command) ==
  IF Len(command) # 2 \/ command[2] \notin DOMAIN IntOf
  THEN server_announce(s, "delay_hint", <<>>)
  ELSE LET time == IntOf[command[2]]
       IN  IF time < 3 THEN server_announce(s, "delay_low", <<3>>)
           ELSE IF time > 20 THEN server_announce(s, "delay_high", <<20>>)
           ELSE server_announce([s EXCEPT !.game.interval_time = time], "delay_set", <<time>>)

\* A variant of resolve_command without the test of game.active.
resolve_command_unguarded(s, command, name) ==
  IF command = <<"/stop">>
  THEN stop_game(server_announce(s, "stopped_by", <<name>>))
  ELSE IF command[1] = "/play"
  THEN LET r == start_game(s, command)
       IN  IF r.ctl = "raise" THEN server_announce([r EXCEPT !.ctl = "ok"], "play_hint", <<>>)
           ELSE [server_announce(r, "new_game", <<name, r.game.difficulty, r.game.tot_q,
                                                  r.game.user_score>>)
                   EXCEPT !.tasks = NewTask(@, "ctp")]
  ELSE IF command = <<"/reset">> THEN reset_leaderboard(s)
  ELSE IF command[1] = "/set-delay" THEN set_delay(s, command)
  ELSE s

resolve_command(s, command, name) ==
  IF command = <<"/stop">>
  THEN stop_game(server_announce(s, "stopped_by", <<name>>))
  ELSE IF s.game.active THEN server_announce(s, "ongoing", command)
  ELSE IF command[1] = "/play"
  THEN LET r == start_game(s, command)
       IN  IF r.ctl = "raise" THEN server_announce([r EXCEPT !.ctl = "ok"], "play_hint", <<>>)
           ELSE [server_announce(r, "new_game", <<name, r.game.difficulty, r.game.tot_q,
                                                  r.game.user_score>>)
                   EXCEPT !.tasks = NewTask(@, "ctp")]
  ELSE IF command = <<"/reset">> THEN reset_leaderboard(s)
  ELSE IF command[1] = "/set-delay" THEN set_delay(s, command)
  ELSE s

\* ------------------------------------------------------------ cycle tasks
\* The countdown loop of proceed_game from index i on: announce and sleep one
\* second, or, the loop over, draw and publish the question <<x, sign, y>>.
Countdown(s, k, i, q) ==
  IF i > 0
  THEN [server_announce(s, "countdown", <<s.game.cur_q, i>>)
          EXCEPT !.tasks = [@ EXCEPT ![k].pc = "cd", ![k].i = i, ![k].wait = 1]]
  ELSE LET s1 == [s EXCEPT !.game.question = q, !.game.answer = Eval(q),
                           !.game.solved = FALSE, !.game.check_answer = TRUE,
                           !.hist.npub = @ + 1,
                           !.tasks = RemoveAt(@, k)]
       IN  server_announce(s1, "question", <<s.game.cur_q, q>>)

\* A variant of proceed_game that sleeps the whole interval before its countdown.
proceed_game_whole_interval(s, k, q) ==
  LET t == s.tasks[k]
      delay == s.game.interval_time - s.game.count_down_time
      s0 == IF t.pc = "start" THEN [s EXCEPT !.tasks[k].delay = delay] ELSE s
  IN  IF t.pc = "start" /\ delay > 0
      THEN [server_announce(s0, "upcoming", <<s.game.cur_q, s.game.interval_time>>)
              EXCEPT !.tasks = [@ EXCEPT ![k].pc = "delay", ![k].wait = s.game.interval_time]]
      ELSE IF t.pc \in {"start", "delay"} THEN Countdown(s0, k, s.game.count_down_time, q)
      ELSE Countdown(s, k, t.i - 1, q)

\* One run of proceed_game task k, from where it stands to its next sleep or end.
proceed_game(s, k, q) ==
  LET t == s.tasks[k]
      delay == s.game.interval_time - s.game.count_down_time
      s0 == IF t.pc = "start" THEN [s EXCEPT !.tasks[k].delay = delay] ELSE s
  IN  IF t.pc = "start" /\ delay > 0
      THEN [server_announce(s0, "upcoming", <<s.game.cur_q, s.game.interval_time>>)
              EXCEPT !.tasks = [@ EXCEPT ![k].pc = "delay", ![k].wait = delay]]
      ELSE IF t.pc \in {"start", "delay"} THEN Countdown(s0, k, s.game.count_down_time, q)
      ELSE Countdown(s, k, t.i - 1, q)

Questions(b) == {<<x, sg, y>> : x \in Operands(b), sg \in {"+", "-"}, y \in Operands(b)}

Ready(t) == t.pc = "start" \/ (t.pc \in {"delay", "cd"} /\ t.wait = 0)

PgStep(k) ==
  /\ k \in 1..Len(tasks)
  /\ tasks[k].kind = "pg"
  /\ Ready(tasks[k])
  /\ \E q \in Questions(game.bound) : Commit(proceed_game(Here, k, q))
  /\ UNCHANGED <<hello, regs, sock>>

\* The check_to_proceed task made by /play, from its start.  While it runs it
\* is marked "run"; a stop_game that cancels it (it is game.cur_game) makes the
\* asyncio.sleep in stop_game raise, which ends the task there.
CtpStep(k) ==
  /\ k \in 1..Len(tasks)
  /\ tasks[k].kind = "ctp"
  /\ tasks[k].pc = "start"
  /\ LET r == check_to_proceed([Here EXCEPT !.tasks[k].pc = "run", !.tasks[k].cur = FALSE])
         kk == CHOOSE j \in 1..Len(r.tasks) : r.tasks[j].pc = "run"
     IN  Commit([r EXCEPT !.tasks = IF r.ctl = "sleep" /\ ~tasks[k].cur
                                    THEN [@ EXCEPT ![kk].pc = "stop", ![kk].sb = r.sb, ![kk].wait = 1]
                                    ELSE RemoveAt(@, kk),
                          !.ctl = "ok", !.sb = <<>>])
  /\ UNCHANGED <<hello, regs, sock>>

CtpWake(k) ==
  /\ k \in 1..Len(tasks)
  /\ tasks[k].kind = "ctp"
  /\ tasks[k].pc = "stop"
  /\ Commit(stop_game_resume([Here EXCEPT !.tasks = RemoveAt(@, k)], tasks[k].sb))
  /\ UNCHANGED <<hello, regs, sock>>

\* --------------------------------------------------- connection registry
\* get_all_palette
get_all_palette(us) ==
  LET act == SelectSeq(us, LAMBDA u : u.active)
  IN  <<<<"SERVER", "dark green", "">>, <<"help", "yellow", "">>>>
      \o [j \in 1..Len(act) |-> <<act[j].name, act[j].foreground, act[j].background>>]

\* db.users[name] = {"active": True, "foreground": .., "background": ..}: a key
\* already in the dict keeps its place.
SetUser(us, name, fg, bg) ==
  LET rec == [name |-> name, active |-> TRUE, foreground |-> fg, background |-> bg]
  IN  IF name \in UserNames(us)
      THEN [j \in 1..Len(us) |-> IF us[j].name = name THEN rec ELSE us[j]]
      ELSE Append(us, rec)

\* check_num_user
check_num_user(s) ==
  IF Registered(s.conn) = {}
  THEN stop_game([s EXCEPT !.hist.forced = @ \/ s.game.active])
  ELSE s

\* The finally block of register, up to a sleep in stop_game or its end; the del
\* of a connection that is not a key raises KeyError (ctl = "raise").
reg_finally(s, t) ==
  IF s.conn[t.ws] = NoName THEN [s EXCEPT !.ctl = "raise"]
  ELSE LET s1 == [s EXCEPT !.conn[t.ws] = NoName,
                           !.users = [j \in 1..Len(@) |-> IF @[j].name = t.name
                                                          THEN [@[j] EXCEPT !.active = FALSE]
                                                          ELSE @[j]]]
       IN  check_num_user(server_announce(s1, "left", <<t.name>>))

\* A variant of admission that does not look at the name.
admission_any_name(s, name) == IF s.game.active THEN "in_game" ELSE "ok"

\* The two tests register starts with.
admission(s, name) ==
  IF s.game.active THEN "in_game"
  ELSE IF IsActive(s.users, name) THEN "in_use"
  ELSE "ok"

\* One run of register task t, from where it stands to its next suspension or
\* end; open tells whether a send to its connection succeeds (a send to a
\* closed connection raises).  next is the task's next pc, "done" when it ended.
\*   start: not yet run            ack, pal, lb: suspended in the send of the
\*   wait: in ws.wait_closed()          ack, the palette, the leaderboard
\*   stop: in stop_game's sleep, called from the finally block
register(s, t, open) ==
  IF t.pc = "start" /\ admission(s, t.name) = "in_game"
  THEN [next |-> "done", s |-> IF open THEN send(s, t.ws, "error", "in_game", <<>>) ELSE s]
  ELSE IF t.pc = "start" /\ admission(s, t.name) = "in_use"
  THEN [next |-> "done", s |-> IF open THEN send(s, t.ws, "error", "in_use", <<t.name>>) ELSE s]
  ELSE IF t.pc = "stop"
  THEN [next |-> "done", s |-> stop_game_resume(s, t.sb)]
  ELSE LET col == parse_color(t.color)
           s0 == IF t.pc = "start"
                 THEN [s EXCEPT !.users = SetUser(@, t.name, col[1], col[2])]
                 ELSE s
           s1 == announce(s0, "palette", "palette", <<<<t.name, col[1], col[2]>>>>, None)
           s2 == server_announce([s1 EXCEPT !.conn[t.ws] = t.name], "joined", <<t.name>>)
           from == IF t.pc = "lb" THEN s2 ELSE s0
           fin == reg_finally(from, t)
       IN  IF t.pc = "wait" \/ ~open
           THEN [next |-> IF fin.ctl = "sleep" THEN "stop" ELSE "done", s |-> fin]
           ELSE IF t.pc = "start"
           THEN [next |-> "ack", s |-> send(s0, t.ws, "register", "success", <<>>)]
           ELSE IF t.pc = "ack"
           THEN [next |-> "pal", s |-> send(s0, t.ws, "palette", "palette", get_all_palette(s0.users))]
           ELSE IF t.pc = "pal"
           THEN [next |-> "lb", s |-> send(s0, t.ws, "leaderboard", "leaderboard", s0.leaderboad)]
           ELSE [next |-> "wait", s |-> s2]

RegStep(k) ==
  /\ k \in 1..Len(regs)
  /\ regs[k].pc = "wait" => sock[regs[k].ws] = "closed"
  /\ LET r == register(Here, regs[k], sock[regs[k].ws] = "open")
     IN  /\ Commit([r.s EXCEPT !.ctl = "ok", !.sb = <<>>])
         /\ regs' = IF r.next = "done" THEN RemoveAt(regs, k)
                    ELSE [regs EXCEPT ![k].pc = r.next, ![k].sb = r.s.sb,
                                      ![k].wait = IF r.next = "stop" THEN 1 ELSE 0]
  /\ UNCHANGED <<hello, sock>>

\* ------------------------------------------------------------------ hello
\* What hello does with one "message" request from connection w, up to a sleep
\* in stop_game, an exception or its end.
hello_message(s, w, payload) ==
  IF s.conn[w] = NoName THEN s
  ELSE LET name == s.conn[w]
           s1 == announce(s, "message", "chat", payload, name)
           s2 == IF s1.game.active THEN check_answer(s1, payload, name) ELSE s1
       IN  IF s2.ctl # "ok" THEN s2
           ELSE IF StartsWithSlash(payload) THEN resolve_command(s2, payload, name)
           ELSE s2

Idle(w) == [pc |-> "recv", sb |-> <<>>, wait |-> 0]

\* hello receives a "message" request.  An exception ends the handler, and the
\* server closes the connection.
Message(w, payload) ==
  /\ sock[w] = "open"
  /\ hello[w].pc = "recv"
  /\ payload[1] = "/play" => hist.nplay < MaxRounds
  /\ LET r == hello_message(Here, w, payload)
     IN  /\ Commit([r EXCEPT !.ctl = "ok", !.sb = <<>>])
         /\ hello' = [hello EXCEPT ![w] = IF r.ctl = "sleep"
                                          THEN [pc |-> "stop", sb |-> r.sb, wait |-> 1]
                                          ELSE Idle(w)]
         /\ sock' = IF r.ctl = "raise" THEN [sock EXCEPT ![w] = "closed"] ELSE sock
  /\ UNCHANGED regs

\* hello resumes from the sleep in stop_game.
HelloWake(w) ==
  /\ hello[w].pc = "stop"
  /\ Commit(stop_game_resume(Here, hello[w].sb))
  /\ hello' = [hello EXCEPT ![w] = Idle(w)]
  /\ UNCHANGED <<regs, sock>>

\* hello receives a "register" request: it makes the register task.
Register(w, name, color) ==
  /\ sock[w] = "open"
  /\ hello[w].pc = "recv"
  /\ hist.nreg < MaxReg
  /\ regs' = Append(regs, [ws |-> w, name |-> name, color |-> color, pc |-> "start",
                           sb |-> <<>>, wait |-> 0])
  /\ hist' = [hist EXCEPT !.nreg = @ + 1]
  /\ out' = <<>>
  /\ UNCHANGED <<users, leaderboad, conn, game, tasks, hello, sock>>

\* The transport of connection w closes.
Close(w) ==
  /\ sock[w] = "open"
  /\ sock' = [sock EXCEPT ![w] = "closed"]
  /\ out' = <<>>
  /\ UNCHANGED <<users, leaderboad, conn, game, tasks, hello, regs, hist>>

\* ------------------------------------------------------------------- time
RegReady(t) == t.pc \in {"start", "ack", "pal", "lb"} \/ (t.pc = "wait" /\ sock[t.ws] = "closed")

\* A task the event loop runs before any more time passes.
SomeReady ==
  \/ \E k \in 1..Len(tasks) : Ready(tasks[k]) \/ (tasks[k].pc = "stop" /\ tasks[k].wait = 0)
  \/ \E k \in 1..Len(regs) : RegReady(regs[k]) \/ (regs[k].pc = "stop" /\ regs[k].wait = 0)
  \/ \E w \in Conns : hello[w].pc = "stop" /\ hello[w].wait = 0

SomeTimer ==
  \/ \E k \in 1..Len(tasks) : tasks[k].wait > 0
  \/ \E k \in 1..Len(regs) : regs[k].wait > 0
  \/ \E w \in Conns : hello[w].wait > 0

Dec(t) == IF t.wait > 0 THEN [t EXCEPT !.wait = @ - 1] ELSE t

\* The second is one more that cycle task t has spent before its countdown.
Older(t) == IF t.pc \in {"start", "delay"} THEN [t EXCEPT !.age = @ + 1] ELSE t

\* One second passes.  A sleep of half a second (stop_game) ends before the
\* second tick after it began.
Tick ==
  /\ SomeTimer
  /\ ~SomeReady
  /\ tasks' = [k \in 1..Len(tasks) |-> Dec(Older(tasks[k]))]
  /\ regs' = [k \in 1..Len(regs) |-> Dec(regs[k])]
  /\ hello' = [w \in Conns |-> Dec(hello[w])]
  /\ out' = <<>>
  /\ UNCHANGED <<users, leaderboad, conn, game, sock, hist>>

\* ------------------------------------------------------------ environment
TextOf(n) == CHOOSE t \in DOMAIN IntOf : IntOf[t] = n

NameOf(w) == IF w % 2 = 1 THEN "a" ELSE "b"

Colors == {<<>>, <<"red", "blue">>}

\* The answers tried: every result a question can have, and numbers that are none.
Numbers == {<<TextOf(n)>> : n \in (-MaxOperand - 1)..(2 * MaxOperand)}

Plays(ds, ns) == {<<"/play", d, TextOf(n)>> : d \in ds, n \in ns}

\* No register task is suspended inside its welcome sequence.
Quiescent == \A k \in 1..Len(regs) : regs[k].pc \in {"wait", "stop"}

Unregistered(w) == \A k \in 1..Len(regs) : regs[k].ws # w

\* Game()
Game0 ==
  [active |-> FALSE, check_answer |-> FALSE, stopping |-> FALSE, tot_q |-> 0,
   cur_q |-> 0, solved |-> FALSE, question |-> <<>>, answer |-> 0, score |-> 0,
   difficulty |-> "easy", bound |-> <<0, 0>>, count_down_time |-> 3,
   interval_time |-> 10, user_score |-> <<>>]

Hist0 ==
  [npub |-> 0, parts |-> {}, nplay |-> 0, nreg |-> 0, forced |-> FALSE,
   due |-> [n \in Names |-> 0]]

Init ==
  /\ users = <<>>
  /\ leaderboad = <<>>
  /\ conn = [w \in Conns |-> NoName]
  /\ game = Game0
  /\ tasks = <<>>
  /\ hello = [w \in Conns |-> Idle(w)]
  /\ regs = <<>>
  /\ sock = [w \in Conns |-> "open"]
  /\ out = <<>>
  /\ hist = Hist0

\* The questions are drawn, and the tasks run, in every specification alike.
Cycle ==
  \/ \E k \in DOMAIN tasks : PgStep(k)
  \/ \E k \in DOMAIN tasks : CtpStep(k)
  \/ Tick

\* ------------------------------------------------------ SpecSolo: one player
\* One connection registers and sends any of the payloads at any time: chat,
\* numbers, every command well and ill formed; it disconnects at any time.
\* Commands with bad arguments: a count that is zero or no integer, a difficulty
\* that is none, too few tokens; a delay out of range or no integer, no delay.
BadPlays ==
  {<<"/play", "easy", "0">>, <<"/play", "easy", "x">>, <<"/play", "tricky", "1">>, <<"/play">>}

BadDelays ==
  {<<"/set-delay", "2">>, <<"/set-delay", "25">>, <<"/set-delay", "x">>, <<"/set-delay">>}

SoloPayloads ==
  {<<"hi">>, <<"/stop">>, <<"/reset">>, <<"/foo">>}
  \cup Numbers
  \cup Plays(Difficulties, 1..MaxQ)
  \cup BadPlays
  \cup BadDelays
  \cup {<<"/set-delay", "3">>}

NextSolo ==
  \/ Unregistered(1) /\ Register(1, NameOf(1), <<>>)
  \/ \E k \in DOMAIN regs : RegStep(k)
  \/ \E p \in SoloPayloads : Message(1, p)
  \/ Close(1)
  \/ Cycle

SpecSolo == Init /\ [][NextSolo]_vars

\* ------------------------------------------------ SpecDelay: one player, delays
\* One connection registers, sets the delay between rounds to its least, its
\* greatest and a value between, tries to set it while a Game is active, starts
\* rounds of up to MaxQ questions, answers with any number and stops the game.
Delays == {<<"/set-delay", d>> : d \in {"3", "15", "20"}}

DelayPayloads == {<<"/stop">>} \cup Numbers \cup Plays({"easy"}, 1..MaxQ) \cup Delays

NextDelay ==
  \/ Unregistered(1) /\ Register(1, NameOf(1), <<>>)
  \/ \E k \in DOMAIN regs : RegStep(k)
  \/ \E p \in DelayPayloads : Message(1, p)
  \/ Cycle

SpecDelay == Init /\ [][NextDelay]_vars

\* ------------------------------------------- SpecAnswers: two players answer
\* Every connection registers once, under its own name; the players start one
\* round of MaxQ questions and send numbers, right and wrong, and plain text
\* at any time.  The round ends in the handler of its last right answer.
AnswerPayloads == {<<"hi">>} \cup Numbers \cup Plays({"easy"}, {MaxQ})

NextAnswers ==
  \/ \E w \in Conns : Unregistered(w) /\ Register(w, NameOf(w), <<>>)
  \/ \E k \in DOMAIN regs : RegStep(k)
  \/ \E w \in Conns, p \in AnswerPayloads : (p[1] = "/play" => hist.nplay < 1) /\ Message(w, p)
  \/ \E w \in Conns : HelloWake(w)
  \/ Cycle

SpecAnswers == Init /\ [][NextAnswers]_vars

\* ------------------------------------------- SpecPerfect: one perfect player
\* One connection registers, starts rounds of every difficulty and length, and
\* sends the result of each question once, after the question is published;
\* it sends nothing else and stays connected.
NextPerfect ==
  \/ Unregistered(1) /\ Register(1, NameOf(1), <<>>)
  \/ \E k \in DOMAIN regs : RegStep(k)
  \/ \E p \in Plays(Difficulties, 1..MaxQ) : Message(1, p)
  \/ game.active /\ game.check_answer /\ Message(1, <<TextOf(game.answer)>>)
  \/ Cycle

SpecPerfect == Init /\ [][NextPerfect]_vars

\* ----------------------------------------------------- SpecDuel: two players
\* Every connection registers once, under its own name; the players start
\* one-question rounds, answer with any number at any time and stop the game at
\* any time; while a Game is active they also try to reset the leaderboard and to
\* set the delay.
DuelPayloads == {<<"/stop">>} \cup Numbers \cup Plays({"easy"}, {1})

WhileActive == {<<"/reset">>, <<"/set-delay", "3">>}

NextDuel ==
  \/ \E w \in Conns : Unregistered(w) /\ Register(w, NameOf(w), <<>>)
  \/ \E k \in DOMAIN regs : RegStep(k)
  \/ \E w \in Conns, p \in DuelPayloads : Message(w, p)
  \/ \E w \in Conns, p \in WhileActive : game.active /\ Message(w, p)
  \/ \E w \in Conns : HelloWake(w)
  \/ \E k \in DOMAIN tasks : CtpWake(k)
  \/ Cycle

SpecDuel == Init /\ [][NextDuel]_vars

\* ------------------------------------------------- SpecRace: one round of two
\* Every connection registers once, under its own name; the players start one
\* round of up to MaxQ questions, answer with any number at any time, stop the
\* game and disconnect at any time.
RacePayloads == {<<"/stop">>} \cup Numbers \cup Plays({"easy"}, 1..MaxQ)

NextRace ==
  \/ \E w \in Conns : Unregistered(w) /\ Register(w, NameOf(w), <<>>)
  \/ \E k \in DOMAIN regs : RegStep(k)
  \/ \E w \in Conns, p \in RacePayloads : (p[1] = "/play" => hist.nplay < 1) /\ Message(w, p)
  \/ \E w \in Conns : HelloWake(w)
  \/ \E k \in DOMAIN tasks : CtpWake(k)
  \/ \E w \in Conns : Close(w)
  \/ Cycle

SpecRace == Init /\ [][NextRace]_vars

\* ------------------------------------------------- SpecRegistry: admission
\* Connections register under any name and colour, any number of times, and
\* close at any time; a registered connection starts one game.
RegistryPayloads == Plays({"easy"}, {1})

NextRegistry ==
  \/ \E w \in Conns, n \in Names, c \in Colors : Register(w, n, c)
  \/ \E k \in DOMAIN regs : RegStep(k)
  \/ \E w \in Conns, p \in RegistryPayloads : (p[1] = "/play" => hist.nplay < 1) /\ Message(w, p)
  \/ \E w \in Conns : Close(w)
  \/ Cycle

SpecRegistry == Init /\ [][NextRegistry]_vars

\* ------------------------------------------- SpecBoard: the leaderboard store
\* The leaderboard functions on drawn inputs.  A round-score mapping is a dict:
\* a sequence of <<name, score>> with distinct names, in insertion order; a
\* leaderboard is one that is sorted by non-increasing score, as the code keeps it.
Entries == Names \X (0..MaxScore)

Dicts ==
  {<<>>} \cup {<<e>> : e \in Entries}
         \cup {<<p[1], p[2]>> : p \in {q \in Entries \X Entries : q[1][1] # q[2][1]}}

Boards == {d \in Dicts : Len(d) = 2 => d[1][2] >= d[2][2]}

\* Connection 1 is registered as NameOf(1) and no Game is active; the leaderboard
\* is base; a and b are the round scores to merge, order the merges done.
InitBoard ==
  /\ users = <<[name |-> NameOf(1), active |-> TRUE, foreground |-> "", background |-> ""]>>
  /\ leaderboad \in Boards
  /\ conn = [w \in Conns |-> IF w = 1 THEN NameOf(1) ELSE NoName]
  /\ game = Game0
  /\ tasks = <<>>
  /\ hello = [w \in Conns |-> Idle(w)]
  /\ regs = <<[ws |-> 1, name |-> NameOf(1), color |-> <<>>, pc |-> "wait", sb |-> <<>>, wait |-> 0]>>
  /\ sock = [w \in Conns |-> "open"]
  /\ out = <<>>
  /\ \E a \in Dicts, b \in Dicts :
        hist = [npub |-> 0, parts |-> {}, nplay |-> 0, nreg |-> 1, forced |-> FALSE,
                due |-> [n \in Names |-> 0],
                base |-> leaderboad, a |-> a, b |-> b, order |-> <<>>]

\* update_leaderboard(scores) with a dict of its own.
MergeInto(s, scores) ==
  [update_leaderboard([s EXCEPT !.game.user_score = scores])
     EXCEPT !.game.user_score = s.game.user_score]

\* The round scores x ("a" or "b") are merged into the leaderboard.
Merge(x) ==
  /\ \A i \in DOMAIN hist.order : hist.order[i] # x
  /\ Commit([MergeInto(Here, hist[x]) EXCEPT !.hist.order = Append(@, x)])
  /\ UNCHANGED <<hello, regs, sock>>

\* Both mappings merged, the connection resets the leaderboard, any number of times.
NextBoard ==
  \/ \E x \in {"a", "b"} : Merge(x)
  \/ Len(hist.order) = 2 /\ Message(1, <<"/reset">>)

SpecBoard == InitBoard /\ [][NextBoard]_vars

\* The perfect player under the scheduling the event loop gives: a task that
\* can run does run, time passes, and the player answers a published question.
SpecPerfectFair ==
  /\ SpecPerfect
  /\ WF_vars(Cycle)
  /\ WF_vars(game.active /\ game.check_answer /\ Message(1, <<TextOf(game.answer)>>))

\* ================================================================== claims
PgTasks == {k \in DOMAIN tasks : tasks[k].kind = "pg"}

Published(o) == \E i \in DOMAIN o : o[i].kind = "question"

\* A participant's round score went up in this step.
Credited == \E n \in Keys(game.user_score) \cap Keys(game'.user_score) :
               Get(game'.user_score, n) > Get(game.user_score, n)

\* C1: in every reachable state at most one proceed_game task is live (created,
\* not finished, not cancelled).
C1_AtMostOneCycleTask == Cardinality(PgTasks) <= 1

\* C2: once stop_game has run, and until the next accepted /play (the Game is
\* not active), no run of a proceed_game task sends an announcement or changes
\* question, answer, solved or check_answer.
C2_StoppedRoundIsSilent ==
  [][\A k \in DOMAIN tasks :
       (~game.active /\ PgStep(k)) =>
          /\ out' = <<>>
          /\ game'.question = game.question
          /\ game'.answer = game.answer
          /\ game'.solved = game.solved
          /\ game'.check_answer = game.check_answer]_vars

\* C3: a published question is credited at most once.  A round score goes up
\* only in a step that finds the question unsolved and marks it solved; only the
\* publication of a question makes it unsolved again; and a number submitted
\* while the question is solved changes no score (nor anything else of the Game,
\* the cycle tasks or the leaderboard) and draws no server announcement: only
\* the chat broadcast of the text itself goes out.
C3_OneCreditPerQuestion ==
  [][/\ Credited => (~game.solved /\ game'.solved)
     /\ (game.solved /\ ~game'.solved) => (Published(out') /\ hist'.npub = hist.npub + 1)
     /\ \A w \in Conns, p \in Numbers :
          (game.solved /\ Message(w, p)) =>
             /\ game' = game
             /\ tasks' = tasks
             /\ leaderboad' = leaderboad
             /\ \A i \in DOMAIN out' : out'[i].kind = "chat"]_vars

\* A number sent during an active round, after a question was published and
\* credited, has just been ignored: only its chat broadcast went out.
C3_Witness ==
  /\ game.active /\ game.solved /\ hist.npub >= 1
  /\ \E i \in DOMAIN game.user_score : game.user_score[i][2] > 0
  /\ Len(out) = 1 /\ out[1].kind = "chat" /\ Cardinality(out[1].to) = 2

\* C4: while stop_game has started and not returned (stopping = TRUE) every
\* /play is rejected: it changes none of active, tot_q, cur_q, user_score,
\* difficulty, bound, and schedules no cycle task.
C4_NoPlayWhileStopping ==
  [][\A w \in Conns, p \in Plays(Difficulties, 1..MaxQ) :
       (game.stopping /\ Message(w, p)) =>
          /\ game'.active = game.active
          /\ game'.tot_q = game.tot_q
          /\ game'.cur_q = game.cur_q
          /\ game'.user_score = game.user_score
          /\ game'.difficulty = game.difficulty
          /\ game'.bound = game.bound
          /\ tasks' = tasks]_vars

\* C5: from the acceptance of /play on, as long as the round is running (the
\* Game is active), the keys of game.user_score are exactly the users that were
\* active when /play was accepted.
C5_ParticipantsFixed == game.active => Keys(game.user_score) = hist.parts

\* C6: a register request that is rejected (a Game is active, or the name marks
\* an active user) sends at most an error envelope, to the requesting connection
\* only (exactly one if that connection is open), and leaves db.users and
\* db.conn as they were; the register task ends.
C6_RejectedRegisterLeavesRegistry ==
  [][\A k \in DOMAIN regs :
       (/\ regs[k].pc = "start"
        /\ game.active \/ IsActive(users, regs[k].name)
        /\ RegStep(k)) =>
          /\ users' = users
          /\ conn' = conn
          /\ Len(regs') = Len(regs) - 1
          /\ \A i \in DOMAIN out' : out'[i].target = "error" /\ out'[i].to = {regs[k].ws}
          /\ sock[regs[k].ws] = "open" => Len(out') = 1]_vars

\* The name-in-use error has just been sent to a connection, and the connection
\* that holds the name is still registered under it.
C6_Witness ==
  /\ Len(out) = 1 /\ out[1].kind = "in_use"
  /\ \E w \in Conns : conn[w] = out[1].who /\ out[1].to # {w} /\ IsActive(users, conn[w])

\* C7: the cleanup of an accepted registration completes whenever its connection
\* closes or a send to it fails: a user is active only while a register task for
\* that name is still running.
C7_CleanupCompletes ==
  \A n \in Names : IsActive(users, n) => \E k \in DOMAIN regs : regs[k].name = n

\* C8: in every quiescent state the names of the active users are the names
\* held by the connections of db.conn, each held by exactly one connection.
C8_RegistryMatchesActive ==
  Quiescent =>
    /\ ActiveNames(users) = {conn[w] : w \in Registered(conn)}
    /\ \A w1, w2 \in Registered(conn) : conn[w1] = conn[w2] => w1 = w2

\* C9: when the last registered connection leaves while a Game is active, the
\* end-of-game announcement is sent (to no one) and the Game is no longer
\* active; from then on, until the next /play, no question is published.
C9_ForcedStopEndsTheRound ==
  [][/\ (~hist.forced /\ hist'.forced) =>
          /\ ~game'.active
          /\ \E i \in DOMAIN out' : out'[i].kind = "ended" /\ out'[i].to = {}
     /\ hist.forced => ~Published(out')]_vars

\* The sole participant holds n times the points of the difficulty.
C10_Done ==
  LET pts == CASE game.difficulty = "easy" -> 10 [] game.difficulty = "medium" -> 20
                  [] game.difficulty = "hard" -> 30
  IN  /\ ~game.active /\ ~game.stopping
      /\ hist.npub = game.tot_q
      /\ game.user_score = <<<<NameOf(1), game.tot_q * pts>>>>

\* C10: a round of n questions of any difficulty, played by one participant who
\* answers each published question once and correctly, never publishes more than
\* n questions and, once it is over, has published n and left the participant
\* n times the difficulty's points, the Game idle; and it does get over.
C10_PerfectRound ==
  /\ [](hist.npub <= game.tot_q)
  /\ []((hist.nplay > 0 /\ ~game.active) => C10_Done)
  /\ (game.active ~> C10_Done)

\* A hard round of MaxQ questions is over.
C10_Witness == C10_Done /\ hist.nplay > 0 /\ game.tot_q = MaxQ /\ game.difficulty = "hard"

Hints == {"play_hint", "delay_hint", "delay_low", "delay_high"}

\* C11: a /play or /set-delay command with bad arguments changes no field of the
\* Game record and no cycle task; sent while no Game is active it results in the
\* chat broadcast of its text and one usage hint, nothing else.
C11_BadArgumentsChangeNothing ==
  [][\A w \in Conns, p \in BadPlays \cup BadDelays :
       Message(w, p) =>
          /\ game' = game
          /\ tasks' = tasks
          /\ (~game.active /\ conn[w] # NoName) =>
                /\ Len(out') = 2
                /\ out'[1].kind = "chat"
                /\ out'[2].kind \in Hints]_vars

\* C12: in every reachable state 3 <= interval_time <= 20; /set-delay with a
\* delay below 3 or above 20 leaves interval_time as it was and is answered with
\* an announcement; /set-delay with a delay within 3..20, sent by a registered
\* connection while no Game is active, sets interval_time to that delay.
C12_DelayWithinBounds ==
  /\ [](3 <= game.interval_time /\ game.interval_time <= 20)
  /\ [][\A w \in Conns, d \in {"2", "3", "25"} :
          Message(w, <<"/set-delay", d>>) =>
             IF IntOf[d] < 3 \/ IntOf[d] > 20
             THEN /\ game'.interval_time = game.interval_time
                  /\ conn[w] # NoName =>
                       \E i \in DOMAIN out' : out'[i].kind \in {"delay_low", "delay_high", "ongoing"}
             ELSE (~game.active /\ conn[w] # NoName) =>
                       game'.interval_time = IntOf[d]]_vars

\* The delay has just been set to 3 seconds; it was 10 from the start.
C12_Witness ==
  /\ game.interval_time = 3
  /\ \E i \in DOMAIN out : out[i].kind = "delay_set"

\* C15: a "/"-prefixed message that is no command of the router is ignored in
\* every state of the Game: only the chat broadcast of its text goes out, and the
\* Game, the cycle tasks, the registry and the leaderboard stay as they were.
C15_UnknownCommandIgnored ==
  [][\A w \in Conns :
       Message(w, <<"/foo">>) =>
          /\ game' = game
          /\ tasks' = tasks
          /\ users' = users
          /\ conn' = conn
          /\ leaderboad' = leaderboad
          /\ \A i \in DOMAIN out' : out'[i].kind = "chat"]_vars

\* C19: a round score goes up only in a step that finds a question of the
\* current round published, awaiting its answer and unsolved; and between the
\* acceptance of /play and the first publication no number sent changes a round
\* score or the question index.
C19_CreditOnlyForPublishedQuestion ==
  [][/\ Credited => (hist.npub >= 1 /\ game.check_answer /\ ~game.solved)
     /\ \A w \in Conns, p \in Numbers :
          (game.active /\ hist.npub = 0 /\ Message(w, p)) =>
             /\ game'.user_score = game.user_score
             /\ game'.cur_q = game.cur_q]_vars

\* C16: while a Game is active, /play, /reset and /set-delay from a registered
\* connection are answered with the "ongoing game" announcement and leave the
\* Game record (the participants in it), the cycle tasks and the leaderboard as
\* they were.  /stop from a registered connection is dispatched in every state,
\* Running, Stopping or Idle: the step runs stop_game, which announces the end and
\* leaves active = FALSE, and the rest of that stop_game, after its sleep, does
\* not touch active.
C16_GuardsOfTheRouter ==
  [][\A w \in Conns :
       /\ \A p \in Plays(Difficulties, 1..MaxQ) \cup WhileActive :
            (game.active /\ conn[w] # NoName /\ Message(w, p)) =>
               /\ game' = game
               /\ tasks' = tasks
               /\ leaderboad' = leaderboad
               /\ Len(out') = 2 /\ out'[1].kind = "chat" /\ out'[2].kind = "ongoing"
       /\ (conn[w] # NoName /\ Message(w, <<"/stop">>)) =>
               /\ ~game'.active
               /\ \E i \in DOMAIN out' : out'[i].kind = "ended"
       /\ HelloWake(w) => game'.active = game.active]_vars

\* A command has just been rejected because of the ongoing Game, with scores on
\* the leaderboard and a delay that is not the one asked for.
C16_Witness ==
  /\ game.active /\ game.interval_time = 10 /\ leaderboad # <<>>
  /\ Len(out) = 2 /\ out[2].kind = "ongoing"

\* No stop_game is suspended in its sleep.
Settled ==
  /\ ~game.stopping
  /\ \A w \in Conns : hello[w].pc # "stop"
  /\ \A k \in DOMAIN tasks : tasks[k].pc # "stop"
  /\ \A k \in DOMAIN regs : regs[k].pc # "stop"

BoardTotal(n) == IF n \in Keys(leaderboad) THEN Get(leaderboad, n) ELSE 0

\* C18: each round's scores are merged into the leaderboard at most once: when
\* no finalization is under way, every user's total on the leaderboard is the
\* sum of that user's final round scores over the rounds, since the last /reset,
\* that ended with more than one participant and a positive score sum.
C18_MergedOncePerRound == Settled => \A n \in Names : BoardTotal(n) = hist.due[n]

\* C20: a credit while questions remain advances the question index by exactly
\* one and schedules the cycle task of the next question; a credit when none
\* remains stops the round; and a Game is never active with its question solved
\* and no cycle task live.
C20_ProgressAfterCredit ==
  /\ []((game.active /\ game.solved) => tasks # <<>>)
  /\ [][(game.active /\ Credited) =>
          IF game.cur_q < game.tot_q
          THEN /\ game'.cur_q = game.cur_q + 1
               /\ Len(tasks') = Len(tasks) + 1
               /\ tasks'[Len(tasks')].kind = "pg"
          ELSE ~game'.active]_vars

\* The totals of a board: its <<name, score>> pairs, whatever their order.
Totals(board) == {board[i] : i \in DOMAIN board}

MergedBoard(board, x, y) == MergeInto(MergeInto([Here EXCEPT !.leaderboad = board], x), y).leaderboad

\* The last step was a merge.
JustMerged == \E i \in DOMAIN out : out[i].kind = "lb_updated"

\* C13: merging is commutative across rounds: for every leaderboard and round
\* scores A and B, update_leaderboard(A) then update_leaderboard(B) leaves one
\* entry per user with the same total for every user as B then A; and the
\* board that two merges did produce has the totals of the merges in the
\* other order.
C13_MergeCommutes ==
  /\ Totals(MergedBoard(leaderboad, hist.a, hist.b)) = Totals(MergedBoard(leaderboad, hist.b, hist.a))
  /\ Len(MergedBoard(leaderboad, hist.a, hist.b)) = Len(MergedBoard(leaderboad, hist.b, hist.a))
  /\ (Len(hist.order) = 2 /\ JustMerged) =>
        /\ Totals(leaderboad) = Totals(MergedBoard(hist.base, hist[hist.order[2]], hist[hist.order[1]]))
        /\ Len(leaderboad) = Cardinality(Totals(leaderboad))

\* Two merges were done on a board with entries, each adding to a total that
\* was there and the two in an order in which the boards differ.
C13_Witness ==
  /\ Len(hist.order) = 2 /\ JustMerged
  /\ hist.base # <<>>
  /\ \E n \in Keys(hist.base) \cap Keys(hist.a) \cap Keys(hist.b) :
        Get(hist.a, n) > 0 /\ Get(hist.b, n) > 0
  /\ leaderboad # MergedBoard(hist.base, hist[hist.order[2]], hist[hist.order[1]])

\* C14: /reset from a registered connection while no Game is active leaves the
\* leaderboard empty, whatever it held, broadcasts the empty board (after the
\* chat text, before the announcement of the reset) and leaves the Game record
\* as it was: so k resets in a row leave what one does.
C14_ResetIsIdempotent ==
  [][\A w \in Conns :
       (~game.active /\ conn[w] # NoName /\ Message(w, <<"/reset">>)) =>
          /\ leaderboad' = <<>>
          /\ game' = game
          /\ tasks' = tasks
          /\ Len(out') = 3
          /\ out'[1].kind = "chat"
          /\ out'[2].target = "leaderboard" /\ out'[2].board = <<>>
          /\ out'[2].to = Registered(conn)
          /\ out'[3].kind = "lb_reset"]_vars

\* A leaderboard that held scores has just been reset.
C14_Witness ==
  /\ leaderboad = <<>>
  /\ \E i \in DOMAIN out : out[i].kind = "lb_reset"
  /\ \E i \in DOMAIN hist.base : hist.base[i][2] > 0

BoardOK(board) ==
  /\ \A i, j \in DOMAIN board : board[i][1] = board[j][1] => i = j
  /\ \A i \in DOMAIN board : board[i][2] >= 0
  /\ \A i, j \in DOMAIN board : i < j => board[i][2] >= board[j][2]

Place(board, n) == CHOOSE i \in DOMAIN board : board[i][1] = n

\* Among the entries of new with equal scores, those that were on old come in
\* the order they had on old, and before those that were not.
TiesKeepOrder(old, new) ==
  \A i, j \in DOMAIN new :
    (i < j /\ new[i][2] = new[j][2]) =>
       /\ new[j][1] \in Keys(old) => new[i][1] \in Keys(old)
       /\ (new[i][1] \in Keys(old) /\ new[j][1] \in Keys(old)) =>
             Place(old, new[i][1]) < Place(old, new[j][1])

\* C17: in every reachable state the leaderboard holds at most one entry per
\* user, every score is >= 0 and the entries are in non-increasing order of
\* score; and a merge keeps the relative order of the entries with equal scores,
\* those already on the board before the newly inserted ones.
C17_BoardWellFormed ==
  /\ [](BoardOK(leaderboad))
  /\ [][\A x \in {"a", "b"} : Merge(x) => TiesKeepOrder(leaderboad, leaderboad')]_vars

\* A merge has just brought a new entry to the score of an entry that was on
\* the board, and placed it after that one.
C17_Witness ==
  /\ Len(hist.order) = 1 /\ JustMerged
  /\ Len(leaderboad) = 2 /\ leaderboad[1][2] = leaderboad[2][2] /\ leaderboad[1][2] > 0
  /\ leaderboad[1][1] \in Keys(hist.base) /\ leaderboad[2][1] \notin Keys(hist.base)

\* C21: a cycle task that has begun its countdown spent, between its scheduling
\* and its first countdown announcement, as many one-second ticks as the delay
\* it read at its start exceeds the countdown: interval_time - count_down_time,
\* which is 12 after /set-delay 15 and 0 after /set-delay 3.
C21_WaitsDelayLessCountdown ==
  \A k \in DOMAIN tasks :
     tasks[k].kind = "pg" /\ tasks[k].pc = "cd"
        => /\ tasks[k].delay + game.count_down_time \in 3..20
           /\ tasks[k].age = tasks[k].delay

\* The delay was set to 15 and the cycle task of the round started after that
\* has just made its first countdown announcement, 12 ticks after its scheduling.
C21_Witness ==
  /\ game.interval_time = 15
  /\ \E k \in DOMAIN tasks :
        tasks[k].kind = "pg" /\ tasks[k].pc = "cd" /\ tasks[k].i = game.count_down_time
           /\ tasks[k].delay = 12 /\ tasks[k].age = 12
  /\ \E i \in DOMAIN out : out[i].kind = "countdown"

\* C21 as stated: the interval_time read by a cycle task is the number of ticks
\* between its scheduling and its first countdown announcement.
C21_WaitsWholeDelay ==
  \A k \in DOMAIN tasks :
     tasks[k].kind = "pg" /\ tasks[k].pc = "cd"
        => tasks[k].age = tasks[k].delay + game.count_down_time

\* What a submission must leave as it was.
Untouched == UNCHANGED <<game, tasks, leaderboad, users, conn>>

\* The step is the rejection, and nothing else, of a number sent by w.
Rejected(w) ==
  /\ Len(out') = 2
  /\ out'[1].kind = "chat"
  /\ out'[2].kind = "incorrect" /\ out'[2].who = conn[w]
  /\ Untouched

\* C22: while a Game is active, plain text that is no number and no "/"-text,
\* sent by a registered connection, is broadcast as chat and nothing else is
\* announced or changed; a number other than game.answer, sent while the question
\* is not marked solved, is answered with one rejection that names the sender,
\* and game (solved, cur_q, user_score), the cycle tasks and the leaderboard stay
\* as they were.
C22_WrongAnswerChangesNothing ==
  [][\A w \in Conns :
       /\ (game.active /\ conn[w] # NoName /\ Message(w, <<"hi">>))
            => (Len(out') = 1 /\ out'[1].kind = "chat" /\ Untouched)
       /\ \A n \in Numbers :
            (game.active /\ ~game.solved /\ conn[w] # NoName
               /\ IntOf[n[1]] # game.answer /\ Message(w, n))
            => Rejected(w)]_vars

\* With both players in a round and its question published, not solved, b has
\* just been told that the number is wrong.
C22_Witness ==
  /\ game.active /\ game.check_answer /\ ~game.solved
  /\ Len(game.user_score) = 2
  /\ Len(out) = 2 /\ out[2].kind = "incorrect" /\ out[2].who = "b"

\* C22 as stated: while a Game is active every number other than game.answer is
\* answered with one rejection, whether the question is marked solved or not.
C22_EveryWrongNumberRejected ==
  [][\A w \in Conns, n \in Numbers :
       (game.active /\ conn[w] # NoName /\ IntOf[n[1]] # game.answer /\ Message(w, n))
          => Rejected(w)]_vars

====
